---------------------------- MODULE Spec2Model ----------------------------
(***************************************************************************)
(* IdeaForge chat front end (streamlit_app.py): the send handler that      *)
(* builds a bounded-context prompt, calls the remote model, retries once   *)
(* on an empty result, maps failures to display strings and appends the    *)
(* turn to the session transcript; the clear handler; and the response     *)
(* text extraction.                                                        *)
(*                                                                         *)
(* Text is a sequence of characters, each character a one-character        *)
(* string ("U+XXXX" names a non-ASCII code point).  Python values are      *)
(* tagged records: None, str, int, list, object, and Absent for an         *)
(* attribute the object does not have.                                     *)
(***************************************************************************)
EXTENDS Integers, Sequences, FiniteSets, TLC

VARIABLES
    history,      \* st.session_state.history: list of (user, bot) tuples
    pc,           \* position of the script run of the session
    user_input,   \* the text area's value in the current run
    mod_input,    \* the (possibly prefixed) message put in the prompt
    prompt,       \* the prompt of the current submission
    reply,        \* the handler's local `reply`
    calls,        \* outbound generate_content requests of this submission
    sinceClear,   \* history variable: (message, reply) resolved since clear
    cleared,      \* history variable: the log the latest clear wiped
    blankSent,    \* history variable: a blank message was sent since clear
    budget,       \* non-blank submissions the exploration still follows
    resp,         \* extraction check: the raw response under test
    extracted     \* extraction check: what extract_text_from_response gave

vars == <<history, pc, user_input, mod_input, prompt, reply, calls, sinceClear,
          cleared, blankSent, budget, resp, extracted>>

---------------------------------------------------------------------------
(* Bounds of the exploration.                                              *)

\* non-blank submissions followed from the initial state of a session
MaxRuns == 3
\* longest transcript a prompt-building run starts from
MaxHistory == 10
\* non-blank submissions followed from a pre-filled transcript
MaxPromptRuns == 1
\* non-blank submissions followed when progress is checked
MaxFairRuns == 2
\* longest list of content parts in a response under test
MaxParts == 2

---------------------------------------------------------------------------
(* Python values.                                                          *)

None == [t |-> "None"]
Absent == [t |-> "absent"]
PyStr(s) == [t |-> "str", v |-> s]
PyInt(n) == [t |-> "int", n |-> n]
PyList(l) == [t |-> "list", v |-> l]

\* bool(x)
Truthy(x) ==
    CASE x.t = "None" -> FALSE
      [] x.t = "str" -> x.v # <<>>
      [] x.t = "list" -> x.v # <<>>
      [] x.t = "int" -> x.n # 0
      [] OTHER -> TRUE

\* hasattr(obj, name), given the attribute's slot
HasAttr(slot) == slot.t # "absent"

\* getattr(obj, name, None), given the attribute's slot
GetAttr(slot) == IF HasAttr(slot) THEN slot ELSE None

---------------------------------------------------------------------------
(* Python string operations, character by character.                       *)

Whitespace == {" ", "\n", "\t", "\r"}

UpperCase ==
    <<"A", "B", "C", "D", "E", "F", "G", "H", "I", "J", "K", "L", "M",
      "N", "O", "P", "Q", "R", "S", "T", "U", "V", "W", "X", "Y", "Z">>

LowerCase ==
    <<"a", "b", "c", "d", "e", "f", "g", "h", "i", "j", "k", "l", "m",
      "n", "o", "p", "q", "r", "s", "t", "u", "v", "w", "x", "y", "z">>

LowerChar(c) ==
    IF \E i \in DOMAIN UpperCase : UpperCase[i] = c
    THEN LowerCase[CHOOSE i \in DOMAIN UpperCase : UpperCase[i] = c]
    ELSE c

\* s.lower()
Lower(s) == [i \in DOMAIN s |-> LowerChar(s[i])]

\* needle in hay
Contains(needle, hay) ==
    \E i \in 1..(Len(hay) - Len(needle) + 1) :
        SubSeq(hay, i, i + Len(needle) - 1) = needle

\* s.strip()
Strip(s) ==
    LET keep == {i \in DOMAIN s : s[i] \notin Whitespace}
    IN  IF keep = {} THEN <<>>
        ELSE SubSeq(s, CHOOSE i \in keep : \A j \in keep : i <= j,
                       CHOOSE i \in keep : \A j \in keep : i >= j)

BR == <<"<", "b", "r", ">">>

RECURSIVE ReplaceNewline(_)
\* s.replace('\n', '<br>')
ReplaceNewline(s) ==
    LET at == {i \in DOMAIN s : s[i] = "\n"}
    IN  IF at = {} THEN s
        ELSE LET first == CHOOSE i \in at : \A j \in at : i <= j
             IN  SubSeq(s, 1, first - 1) \o BR
                     \o ReplaceNewline(SubSeq(s, first + 1, Len(s)))

RECURSIVE Join(_, _)
\* sep.join(texts)
Join(sep, texts) ==
    IF texts = <<>> THEN <<>>
    ELSE IF Len(texts) = 1 THEN texts[1]
    ELSE texts[1] \o sep \o Join(sep, Tail(texts))

---------------------------------------------------------------------------
(* Response envelope and text extraction (extract_text_from_response).     *)
(* A response is None or an object with the slots candidates and text; a   *)
(* candidate has the slot content, a content the slot parts, a part the    *)
(* slot text.                                                              *)

Response(candidates, text) ==
    [t |-> "obj", candidates |-> candidates, text |-> text]
Candidate(content) == [t |-> "obj", content |-> content]
Content(parts) == [t |-> "obj", parts |-> parts]
Part(text) == [t |-> "obj", text |-> text]

\* outcomes of a block of the try body
Fall == [k |-> "fall"]
Raise == [k |-> "raise"]
Return(x) == [k |-> "return", v |-> x]

NEWLINE == <<"\n">>

\* variant: the last candidate is read instead of the first
LastCandidate(cands) == cands[Len(cands)]

\* resp.candidates[0]
FirstCandidate(cands) == cands[1]

\* getattr(p, "text", None) is truthy
PartHasText(p) == Truthy(GetAttr(p.text))

\* the candidate branch of the try body: a return, a raise, or neither
CandidateBlock(r) ==
    IF ~(HasAttr(r.candidates) /\ Truthy(r.candidates)) THEN Fall
    ELSE IF r.candidates.t # "list" THEN Raise
    ELSE LET cand == FirstCandidate(r.candidates.v)
         IN  IF ~(/\ HasAttr(cand.content)
                  /\ Truthy(cand.content)
                  /\ HasAttr(cand.content.parts))
             THEN Fall
             ELSE LET parts == cand.content.parts
                  IN  IF ~Truthy(parts) THEN Fall
                      ELSE IF parts.t # "list" THEN Raise
                      ELSE LET withText == SelectSeq(parts.v, PartHasText)
                               texts == [i \in DOMAIN withText |->
                                            withText[i].text]
                           IN  IF texts = <<>> THEN Fall
                               ELSE IF \E i \in DOMAIN texts :
                                           texts[i].t # "str"
                               THEN Raise
                               ELSE Return(PyStr(Strip(Join(NEWLINE,
                                        [i \in DOMAIN texts |-> texts[i].v]))))

\* the flat-text branch of the try body
FlatBlock(r) ==
    IF HasAttr(r.text) /\ Truthy(r.text)
    THEN IF r.text.t = "str" THEN Return(PyStr(Strip(r.text.v))) ELSE Raise
    ELSE Fall

extract_text_from_response(r) ==
    IF ~Truthy(r) THEN None
    ELSE LET cb == CandidateBlock(r)
         IN  IF cb.k = "return" THEN cb.v
             ELSE IF cb.k = "raise" THEN None
             ELSE LET fb == FlatBlock(r)
                  IN  IF fb.k = "return" THEN fb.v ELSE None

---------------------------------------------------------------------------
(* The program's literal strings and parameters.                           *)

SERVICE ==
    <<"s", "e", "r", "v", "i", "c", "e">>

BUSINESS ==
    <<"b", "u", "s", "i", "n", "e", "s", "s">>

SERVICE_PREFIX ==
    <<"G", "i", "v", "e", " ", "m", "e", " ", "c", "r", "e", "a", "t", "i",
      "v", "e", " ", "s", "e", "r", "v", "i", "c", "e", " ", "i", "d", "e",
      "a", "s", " ", "o", "n", "l", "y", ".", " ">>

BUSINESS_PREFIX ==
    <<"G", "i", "v", "e", " ", "m", "e", " ", "b", "u", "s", "i", "n", "e",
      "s", "s", " ", "i", "d", "e", "a", "s", " ", "o", "n", "l", "y", " ",
      "U+2014", " ", "n", "o", "t", " ", "p", "e", "r", "s", "o", "n", "a",
      "l", " ", "s", "e", "r", "v", "i", "c", "e", "s", ".", " ">>

TURN_USER ==
    <<"U", "s", "e", "r", ":", " ">>

TURN_BOT ==
    <<"\n", "I", "d", "e", "a", "F", "o", "r", "g", "e", ":", " ">>

USER_LABEL ==
    <<"\n", "U", "s", "e", "r", ":", " ">>

CUE ==
    <<"\n", "I", "d", "e", "a", "F", "o", "r", "g", "e", ":">>

RETRY_SUFFIX ==
    <<"\n", "P", "l", "e", "a", "s", "e", " ", "t", "r", "y", " ", "a", "g",
      "a", "i", "n", " ", "c", "o", "n", "c", "i", "s", "e", "l", "y", ".">>

APOLOGY ==
    <<"U+26A0", "U+FE0F", " ", "I", " ", "c", "o", "u", "l", "d", "n", "'",
      "t", " ", "g", "e", "n", "e", "r", "a", "t", "e", " ", "a", " ", "r",
      "e", "s", "p", "o", "n", "s", "e", ".", " ", "T", "r", "y", " ", "s",
      "i", "m", "p", "l", "i", "f", "y", "i", "n", "g", " ", "t", "h", "e",
      " ", "r", "e", "q", "u", "e", "s", "t", ".">>

RATE_LIMIT_MARK ==
    <<"4", "2", "9">>

QUOTA_MESSAGE ==
    <<"U+1F6A6", " ", "G", "e", "m", "i", "n", "i", " ", "q", "u", "o", "t",
      "a", " ", "/", " ", "r", "a", "t", "e", " ", "l", "i", "m", "i", "t",
      " ", "r", "e", "a", "c", "h", "e", "d", ".", " ", "T", "r", "y", " ",
      "a", "g", "a", "i", "n", " ", "l", "a", "t", "e", "r", " ", "o", "r",
      " ", "u", "s", "e", " ", "a", " ", "d", "i", "f", "f", "e", "r", "e",
      "n", "t", " ", "k", "e", "y", ".">>

ERROR_PREFIX ==
    <<"U+26A0", "U+FE0F", " ", "E", "r", "r", "o", "r", " ", "c", "a", "l",
      "l", "i", "n", "g", " ", "G", "e", "m", "i", "n", "i", ":", " ">>

\* history[-6:]
CONTEXT_TURNS == 6
\* first call: max_output_tokens=768, temperature=0.7 (in tenths)
FIRST_MAX_OUTPUT_TOKENS == 768
FIRST_TEMPERATURE_TENTHS == 7
\* retry call: max_output_tokens=512, temperature=0.6 (in tenths)
RETRY_MAX_OUTPUT_TOKENS == 512
RETRY_TEMPERATURE_TENTHS == 6

---------------------------------------------------------------------------
(* Prompt assembly (the head of the send handler).                         *)

\* variant: the first six turns are kept, history[:6]
FirstTurns(h) ==
    SubSeq(h, 1, IF Len(h) > CONTEXT_TURNS THEN CONTEXT_TURNS ELSE Len(h))

\* st.session_state.history[-6:]
LastTurns(h) ==
    SubSeq(h, IF Len(h) > CONTEXT_TURNS THEN Len(h) - CONTEXT_TURNS + 1 ELSE 1,
           Len(h))

\* f"User: {u}\nIdeaForge: {b}"
TurnLines(turn) == TURN_USER \o turn[1] \o TURN_BOT \o turn[2]

\* "\n".join([... for u, b in history[-6:]])
ConvoText(h) ==
    LET last == LastTurns(h)
    IN  Join(NEWLINE, [i \in DOMAIN last |-> TurnLines(last[i])])

\* f"{convo_text}\nUser: {message}\nIdeaForge:"
PromptFor(convo_text, message) == convo_text \o USER_LABEL \o message \o CUE

\* variant: the keyword test without .lower()
WantsServiceCaseSensitive(u) == Contains(SERVICE, u) /\ ~Contains(BUSINESS, u)

\* "service" in user_input.lower() and "business" not in user_input.lower()
WantsService(u) ==
    Contains(SERVICE, Lower(u)) /\ ~Contains(BUSINESS, Lower(u))

\* "business" in user_input.lower() and "service" not in user_input.lower()
WantsBusiness(u) ==
    Contains(BUSINESS, Lower(u)) /\ ~Contains(SERVICE, Lower(u))

\* mod_input after the heuristic tweaks
ModInput(u) ==
    IF WantsService(u) THEN SERVICE_PREFIX \o u
    ELSE IF WantsBusiness(u) THEN BUSINESS_PREFIX \o u
    ELSE u

---------------------------------------------------------------------------
(* The remote call (generate_with_gemini) and the reply resolution.        *)
(* What client.models.generate_content does is an outcome: it returns a    *)
(* response, or raises an exception that has a type and a message.         *)

Returned(r) == [k |-> "response", v |-> r]
Raised(type, msg) == [k |-> "exception", e |-> [type |-> type, msg |-> msg]]

\* variant: the exception is re-raised as it is
Reraise(e) == e

\* raise RuntimeError(str(e))
WrapError(e) == [type |-> "RuntimeError", msg |-> e.msg]

\* generate_with_gemini on the outcome of generate_content
generate_with_gemini(outcome) ==
    IF outcome.k = "response"
    THEN LET text == extract_text_from_response(outcome.v)
         IN  [k |-> "return", v |-> IF Truthy(text) THEN text ELSE None]
    ELSE [k |-> "raise", e |-> WrapError(outcome.e)]

\* except RuntimeError as e
Catches(e) == e.type = "RuntimeError"

\* variant: the marker is looked for at the start of the message only
ErrorReplyStartsWith(err) ==
    IF Len(err) >= Len(RATE_LIMIT_MARK)
       /\ SubSeq(err, 1, Len(RATE_LIMIT_MARK)) = RATE_LIMIT_MARK
    THEN QUOTA_MESSAGE
    ELSE ERROR_PREFIX \o err

\* the reply of the except clause
ErrorReply(err) ==
    IF Contains(RATE_LIMIT_MARK, err) THEN QUOTA_MESSAGE ELSE ERROR_PREFIX \o err

\* variant: a retry whatever the first call gave
RetryAlways(r) == TRUE

\* if not reply: (after the first call)
NeedsRetry(r) == ~Truthy(r)

\* variant: the retry's empty result is kept
KeepEmpty(r) == r

\* if not reply: reply = apology (after the retry)
OrApology(r) == IF ~Truthy(r) THEN PyStr(APOLOGY) ELSE r

\* kind of a finished call, for the record of requests
ResultKind(g) ==
    IF g.k = "raise" THEN "Failure"
    ELSE IF Truthy(g.v) THEN "Text" ELSE "Empty"

\* what a finished call gave: the returned value, or the failure's message
ResultValue(outcome, g) ==
    IF g.k = "raise" THEN PyStr(outcome.e.msg) ELSE g.v

Request(p, max_output_tokens, temperature) ==
    [prompt |-> p, max_output_tokens |-> max_output_tokens,
     temperature |-> temperature, result |-> "pending", value |-> None]

Finished(request, outcome, g) ==
    [request EXCEPT !.result = ResultKind(g), !.value = ResultValue(outcome, g)]

\* variant: the new turn is put first
PrependTurn(h, user, bot) ==
    <<<<ReplaceNewline(user), ReplaceNewline(bot)>>>> \o h

\* history.append((user.replace('\n', '<br>'), reply.replace('\n', '<br>')))
AppendTurn(h, user, bot) ==
    Append(h, <<ReplaceNewline(user), ReplaceNewline(bot)>>)

InFlight == Cardinality({i \in DOMAIN calls : calls[i].result = "pending"})

---------------------------------------------------------------------------
(* Script runs.  Every interaction reruns the script top to bottom: the    *)
(* clear handler, then the send handler, which blocks in the remote        *)
(* calls.                                                                  *)

NoText == <<>>

\* variant: the assignment does not reach the session state
ClearNothing(h) == h

\* st.session_state.history = []
ClearHistory(h) == <<>>

\* variant: the guard without .strip()
StartsUnstripped(send, input) == send /\ input # <<>>

\* send and user_input.strip()
Starts(send, input) == send /\ Strip(input) # <<>>

\* a rerun: `if clear:` then the guard of `if send and user_input.strip():`
ScriptRun(clear, send, input) ==
    /\ pc = "Idle"
    /\ LET starts == Starts(send, input)
       IN  /\ starts => budget > 0
           /\ history' = IF clear THEN ClearHistory(history) ELSE history
           /\ sinceClear' = IF clear THEN <<>> ELSE sinceClear
           /\ cleared' = IF clear THEN sinceClear ELSE cleared
           /\ blankSent' = IF send /\ ~starts THEN TRUE
                           ELSE IF clear THEN FALSE ELSE blankSent
           /\ pc' = IF starts THEN "Building" ELSE "Idle"
           /\ user_input' = IF starts THEN input ELSE NoText
           /\ budget' = IF starts THEN budget - 1 ELSE budget
    /\ UNCHANGED <<mod_input, prompt, reply, calls, resp, extracted>>

\* context, heuristic tweaks, and the first call goes out
BuildPrompt ==
    /\ pc = "Building"
    /\ mod_input' = ModInput(user_input)
    /\ prompt' = PromptFor(ConvoText(history), ModInput(user_input))
    /\ calls' = Append(calls, Request(prompt', FIRST_MAX_OUTPUT_TOKENS,
                                      FIRST_TEMPERATURE_TENTHS))
    /\ pc' = "Calling"
    /\ UNCHANGED <<history, user_input, reply, sinceClear, cleared, blankSent,
                   budget, resp, extracted>>

\* the first call ends
FirstCallEnds(outcome) ==
    /\ pc = "Calling"
    /\ LET g == generate_with_gemini(outcome)
       IN  /\ calls' = [calls EXCEPT ![1] = Finished(calls[1], outcome, g)]
           /\ IF g.k = "return"
              THEN /\ reply' = g.v
                   /\ pc' = IF NeedsRetry(g.v) THEN "Retrying" ELSE "Resolved"
              ELSE IF Catches(g.e)
              THEN /\ reply' = PyStr(ErrorReply(g.e.msg))
                   /\ pc' = "Resolved"
              ELSE /\ reply' = reply
                   /\ pc' = "Raised"
    /\ UNCHANGED <<history, user_input, mod_input, prompt, sinceClear, cleared,
                   blankSent, budget, resp, extracted>>

\* the retry goes out
Retry ==
    /\ pc = "Retrying"
    /\ calls' = Append(calls, Request(prompt \o RETRY_SUFFIX,
                                      RETRY_MAX_OUTPUT_TOKENS,
                                      RETRY_TEMPERATURE_TENTHS))
    /\ pc' = "Calling2"
    /\ UNCHANGED <<history, user_input, mod_input, prompt, reply, sinceClear,
                   cleared, blankSent, budget, resp, extracted>>

\* the retry ends
RetryCallEnds(outcome) ==
    /\ pc = "Calling2"
    /\ LET g == generate_with_gemini(outcome)
       IN  /\ calls' = [calls EXCEPT ![2] = Finished(calls[2], outcome, g)]
           /\ IF g.k = "return"
              THEN /\ reply' = OrApology(g.v)
                   /\ pc' = "Resolved"
              ELSE IF Catches(g.e)
              THEN /\ reply' = PyStr(ErrorReply(g.e.msg))
                   /\ pc' = "Resolved"
              ELSE /\ reply' = reply
                   /\ pc' = "Raised"
    /\ UNCHANGED <<history, user_input, mod_input, prompt, sinceClear, cleared,
                   blankSent, budget, resp, extracted>>

\* save, clear the input box, rerun
Save ==
    /\ pc = "Resolved"
    /\ history' = AppendTurn(history, user_input, reply.v)
    /\ sinceClear' = Append(sinceClear, [msg |-> user_input, reply |-> reply.v])
    /\ user_input' = NoText
    /\ mod_input' = NoText
    /\ prompt' = NoText
    /\ reply' = None
    /\ calls' = <<>>
    /\ pc' = "Idle"
    /\ UNCHANGED <<cleared, blankSent, budget, resp, extracted>>

\* the steps of a started handler
HandlerStep(outcomes) ==
    \/ BuildPrompt
    \/ \E o \in outcomes : FirstCallEnds(o)
    \/ Retry
    \/ \E o \in outcomes : RetryCallEnds(o)
    \/ Save

---------------------------------------------------------------------------
(* Inputs: what the user types and what generate_content does.             *)

M_EMPTY ==
    <<>>

M_BLANK ==
    <<" ", "\n", " ">>

M_PLAN ==
    <<" ", "p", "l", "a", "n", "\n", "B">>

M_SERVICE_CAPS ==
    <<"S", "E", "R", "V", "I", "C", "E", " ", "t", "i", "p", "s">>

M_BUSINESS ==
    <<"B", "u", "s", "i", "n", "e", "s", "s", " ", "p", "l", "a", "n">>

M_BOTH ==
    <<"m", "y", " ", "S", "e", "r", "v", "i", "c", "e", " ", "a", "n", "d",
      " ", "B", "U", "S", "I", "N", "E", "S", "S">>

M_HELLO ==
    <<"h", "e", "l", "l", "o">>

M_NEAR ==
    <<"s", "e", "r", "v", "i", "c", " ", "e", "s", ",", " ", "b", "u", "s",
      "i", "n", "e", "s">>

M_DOG ==
    <<"I", " ", "n", "e", "e", "d", " ", "s", "e", "r", "v", "i", "c", "e",
      " ", "i", "d", "e", "a", "s", " ", "f", "o", "r", " ", "a", " ", "d",
      "o", "g", " ", "w", "a", "l", "k", "i", "n", "g", " ", "c", "o", "m",
      "p", "a", "n", "y">>

M_BUSINESSES ==
    <<"s", "m", "a", "l", "l", " ", "b", "u", "s", "i", "n", "e", "s", "s",
      "e", "s">>

T_IDEA_A ==
    <<"I", "d", "e", "a", " ", "A">>

T_IDEA_B ==
    <<"I", "d", "e", "a", " ", "B", " ">>

T_OK ==
    <<" ", "o", "k", "\n">>

T_SPACES ==
    <<" ", " ">>

T_Z ==
    <<"Z">>

E_QUOTA ==
    <<"4", "2", "9", " ", "R", "E", "S", "O", "U", "R", "C", "E", "_", "E",
      "X", "H", "A", "U", "S", "T", "E", "D">>

E_PORT ==
    <<"r", "e", "s", "e", "t", " ", "b", "y", " ", "p", "e", "e", "r", " ",
      "1", "4", "2", "9", "x">>

E_TIMEOUT ==
    <<"t", "i", "m", "e", "d", " ", "o", "u", "t", " ", "a", "f", "t", "e",
      "r", " ", "4", "-", "2", "9", " ", "s">>

\* messages typed in a session explored from its start
SessionMessages == {M_EMPTY, M_BLANK, M_PLAN, M_SERVICE_CAPS}

\* messages typed on top of a pre-filled transcript
PromptMessages ==
    {M_BLANK, M_SERVICE_CAPS, M_BUSINESS, M_BOTH, M_HELLO, M_NEAR, M_DOG,
     M_BUSINESSES}

\* two text parts in the first candidate, a second candidate, a flat text
R_TWO_PARTS ==
    Response(PyList(<<Candidate(Content(PyList(
                          <<Part(PyStr(T_IDEA_A)), Part(PyStr(T_IDEA_B))>>))),
                      Candidate(Content(PyList(<<Part(PyStr(T_Z))>>)))>>),
             PyStr(T_OK))

\* an empty candidate list and no flat text
R_NO_CANDIDATES == Response(PyList(<<>>), Absent)

\* no candidates attribute and a flat text of blanks
R_BLANK_TEXT == Response(Absent, PyStr(T_SPACES))

Outcomes ==
    {Returned(R_TWO_PARTS), Returned(R_NO_CANDIDATES), Returned(R_BLANK_TEXT),
     Returned(None),
     Raised("ClientError", E_QUOTA), Raised("ConnectionError", E_PORT),
     Raised("TimeoutError", E_TIMEOUT)}

\* what the calls do on top of a pre-filled transcript
PromptOutcomes ==
    {Returned(R_TWO_PARTS), Returned(R_NO_CANDIDATES),
     Raised("TimeoutError", E_TIMEOUT)}

SeqsUpTo(S, n) == UNION {[1..k -> S] : k \in 0..n}

PartTexts ==
    {Absent, None, PyStr(<<>>), PyStr(T_IDEA_A), PyStr(T_SPACES), PyStr(T_OK),
     PyInt(7)}

PartsSlots ==
    {Absent, None, PyInt(1)}
        \cup {PyList(l) : l \in SeqsUpTo({Part(x) : x \in PartTexts}, MaxParts)}

FirstCandidates ==
    {Candidate(Absent), Candidate(None)}
        \cup {Candidate(Content(p)) : p \in PartsSlots}

LaterCandidates ==
    {<<>>, <<Candidate(Content(PyList(<<Part(PyStr(T_Z))>>)))>>,
     <<Candidate(None)>>}

CandidatesSlots ==
    {Absent, None, PyList(<<>>), PyInt(3)}
        \cup {PyList(<<c>> \o rest) : c \in FirstCandidates,
                                      rest \in LaterCandidates}

TextSlots ==
    {Absent, None, PyStr(<<>>), PyStr(T_OK), PyStr(T_SPACES), PyInt(5)}

\* the raw responses extraction is checked on
ExtractInputs ==
    {None} \cup {Response(c, x) : c \in CandidatesSlots, x \in TextSlots}

\* a transcript of earlier submissions: every message with every kind of reply
PoolMessages ==
    <<M_BUSINESS, M_BOTH, M_HELLO, M_NEAR, M_DOG, M_BUSINESSES,
      M_SERVICE_CAPS>>

PoolReplies ==
    <<T_IDEA_A \o NEWLINE \o Strip(T_IDEA_B), APOLOGY,
      ERROR_PREFIX \o E_TIMEOUT>>

LogEntry(i) ==
    [msg |-> PoolMessages[((i - 1) % Len(PoolMessages)) + 1],
     reply |-> PoolReplies[((i - 1) % Len(PoolReplies)) + 1]]

RECURSIVE Replay(_)
\* the transcript the submissions of a log leave behind
Replay(log) ==
    IF log = <<>> THEN <<>>
    ELSE AppendTurn(Replay(SubSeq(log, 1, Len(log) - 1)),
                    log[Len(log)].msg, log[Len(log)].reply)

---------------------------------------------------------------------------
(* Specifications.                                                         *)

NotRun == [t |-> "not run"]
Pending == [t |-> "pending"]

\* a fresh session: `st.session_state.history = []`
Init ==
    /\ history = <<>>
    /\ pc = "Idle"
    /\ user_input = NoText
    /\ mod_input = NoText
    /\ prompt = NoText
    /\ reply = None
    /\ calls = <<>>
    /\ sinceClear = <<>>
    /\ cleared = <<>>
    /\ blankSent = FALSE
    /\ budget = MaxRuns
    /\ resp = None
    /\ extracted = NotRun

Next ==
    \/ \E clear \in BOOLEAN, send \in BOOLEAN, input \in SessionMessages :
           ScriptRun(clear, send, input)
    \/ HandlerStep(Outcomes)

Spec == Init /\ [][Next]_vars

\* a started handler runs to its end: the script is one thread and every
\* remote call returns or raises
InitFair ==
    /\ history = <<>>
    /\ pc = "Idle"
    /\ user_input = NoText
    /\ mod_input = NoText
    /\ prompt = NoText
    /\ reply = None
    /\ calls = <<>>
    /\ sinceClear = <<>>
    /\ cleared = <<>>
    /\ blankSent = FALSE
    /\ budget = MaxFairRuns
    /\ resp = None
    /\ extracted = NotRun

FairSpec == InitFair /\ [][Next]_vars /\ WF_vars(HandlerStep(Outcomes))

\* a session that has already resolved up to MaxHistory submissions
InitPrompt ==
    /\ \E n \in 0..MaxHistory :
           /\ sinceClear = [i \in 1..n |-> LogEntry(i)]
           /\ history = Replay([i \in 1..n |-> LogEntry(i)])
    /\ pc = "Idle"
    /\ user_input = NoText
    /\ mod_input = NoText
    /\ prompt = NoText
    /\ reply = None
    /\ calls = <<>>
    /\ cleared = <<>>
    /\ blankSent = FALSE
    /\ budget = MaxPromptRuns
    /\ resp = None
    /\ extracted = NotRun

NextPrompt ==
    \/ \E clear \in BOOLEAN, send \in BOOLEAN, input \in PromptMessages :
           ScriptRun(clear, send, input)
    \/ HandlerStep(PromptOutcomes)

SpecPrompt == InitPrompt /\ [][NextPrompt]_vars

\* extraction alone, on every raw response of ExtractInputs
InitExtract ==
    /\ history = <<>>
    /\ pc = "Idle"
    /\ user_input = NoText
    /\ mod_input = NoText
    /\ prompt = NoText
    /\ reply = None
    /\ calls = <<>>
    /\ sinceClear = <<>>
    /\ cleared = <<>>
    /\ blankSent = FALSE
    /\ budget = 0
    /\ resp \in ExtractInputs
    /\ extracted = Pending

Extract ==
    /\ extracted = Pending
    /\ extracted' = extract_text_from_response(resp)
    /\ UNCHANGED <<history, pc, user_input, mod_input, prompt, reply, calls,
                   sinceClear, cleared, blankSent, budget, resp>>

NextExtract == Extract

SpecExtract == InitExtract /\ [][NextExtract]_vars

---------------------------------------------------------------------------
(* Properties.                                                             *)

InHandler == pc \in {"Building", "Calling", "Retrying", "Calling2"}
AfterBuild == pc \in {"Calling", "Retrying", "Calling2", "Resolved"}
LastCall == calls[Len(calls)]

\* C1: the send handler never raises and always resolves: a started
\* submission reaches Resolved with a non-empty reply string whatever the
\* first call and the retry do (text, empty, transport failure), and no
\* exception passes the handler.
C1_NeverRaisesAlwaysResolves ==
    /\ [](pc # "Raised")
    /\ [](pc = "Resolved" => reply.t = "str" /\ reply.v # <<>>)
    /\ (InHandler ~> pc = "Resolved")

\* C1 witness: resolved after an empty first call and a failed retry
C1_Witness ==
    /\ pc = "Resolved"
    /\ Len(calls) = 2
    /\ calls[1].result = "Empty"
    /\ calls[2].result = "Failure"
    /\ reply.t = "str"

\* C2: the first call is made at (768, 0.7); a retry is made exactly when it
\* yields Empty, once, with the same prompt plus the retry instruction at
\* (512, 0.6); an empty retry resolves to the apology, a retry with text
\* resolves to that text.
C2_RetryOnceThenApology ==
    /\ Len(calls) <= 2
    /\ Len(calls) >= 1 =>
           /\ calls[1].prompt = prompt
           /\ calls[1].max_output_tokens = 768
           /\ calls[1].temperature = 7
    /\ (Len(calls) >= 1 /\ calls[1].result = "Empty") =>
           \/ pc = "Retrying" /\ Len(calls) = 1
           \/ Len(calls) = 2
    /\ Len(calls) = 2 =>
           /\ calls[1].result = "Empty"
           /\ calls[2].prompt = calls[1].prompt \o RETRY_SUFFIX
           /\ calls[2].max_output_tokens = 512
           /\ calls[2].temperature = 6
    /\ (pc = "Resolved" /\ Len(calls) = 2 /\ calls[2].result = "Empty") =>
           reply = PyStr(APOLOGY)
    /\ (pc = "Resolved" /\ LastCall.result = "Text") =>
           reply = LastCall.value

\* C2 witness: both calls came back empty and the apology is the reply
C2_Witness ==
    /\ pc = "Resolved"
    /\ Len(calls) = 2
    /\ calls[2].result = "Empty"
    /\ reply = PyStr(APOLOGY)

\* C3: a submission makes one call, or two when and only when the first
\* returned Empty; the second starts after the first has returned, nothing
\* follows a Text result or a failure, and at most one call is in flight.
C3_CallsPerSubmission ==
    /\ InFlight <= 1
    /\ Len(calls) <= 2
    /\ \A i \in DOMAIN calls : i < Len(calls) => calls[i].result = "Empty"
    /\ pc \in {"Idle", "Building"} => calls = <<>>
    /\ pc = "Calling" => Len(calls) = 1 /\ InFlight = 1
    /\ pc = "Calling2" => Len(calls) = 2 /\ InFlight = 1
    /\ pc = "Resolved" =>
           /\ InFlight = 0
           /\ Len(calls) \in {1, 2}
           /\ Len(calls) = 2 <=> calls[1].result = "Empty"

\* C3 witness: the retry is in flight after the first call returned Empty
C3_Witness ==
    /\ pc = "Calling2"
    /\ calls[1].result = "Empty"
    /\ calls[2].result = "pending"

\* C4: a transport failure in either call whose message contains "429"
\* resolves to the quota string verbatim; any other failure resolves to the
\* generic error string followed by the failure's message; neither resolves
\* to the apology or to model text.
C4_FailureReplies ==
    (pc = "Resolved" /\ LastCall.result = "Failure") =>
        LET msg == LastCall.value.v
        IN  /\ Contains(<<"4", "2", "9">>, msg) =>
                   reply = PyStr(QUOTA_MESSAGE)
            /\ ~Contains(<<"4", "2", "9">>, msg) =>
                   reply = PyStr(ERROR_PREFIX \o msg)
            /\ reply # PyStr(APOLOGY)
            /\ \A o \in Outcomes :
                   o.k = "response" =>
                       reply # extract_text_from_response(o.v)

\* C4 witness: the retry failed with a message that has 429 inside it
C4_Witness ==
    /\ pc = "Resolved"
    /\ Len(calls) = 2
    /\ calls[2].result = "Failure"
    /\ calls[2].value = PyStr(E_PORT)
    /\ reply = PyStr(QUOTA_MESSAGE)

\* C5: the transcript does not change while a request is being built,
\* called or retried; a turn is appended only when the reply is final, and
\* then the earlier turns stay as they were, in place; the only other
\* change is the clear handler's, which removes every turn.
C5_TranscriptAppendOnly ==
    [][/\ InHandler => history' = history
       /\ history' # history =>
              \/ /\ pc = "Resolved"
                 /\ Len(history') = Len(history) + 1
                 /\ SubSeq(history', 1, Len(history)) = history
              \/ /\ pc = "Idle"
                 /\ history' = <<>>]_vars

\* C5 witness: a later submission is being retried on top of earlier turns
C5_Witness ==
    /\ Len(history) >= 2
    /\ pc = "Calling2"

\* C6: the turns of the transcript are in submission order; a clear leaves
\* the transcript empty; the prompt built on an empty transcript holds no
\* earlier turn: it is the user line and the cue.
C6_OrderClearFreshPrompt ==
    /\ Len(history) = Len(sinceClear)
    /\ \A i \in DOMAIN history :
           history[i][1] = ReplaceNewline(sinceClear[i].msg)
    /\ (AfterBuild /\ sinceClear = <<>>) =>
           prompt = USER_LABEL \o mod_input \o CUE

\* C6 witness: two model replies were appended in order, a clear wiped
\* them, and the next prompt has been built
C6_Witness ==
    /\ Len(cleared) = 2
    /\ cleared[1].msg # cleared[2].msg
    /\ \A i \in DOMAIN cleared : cleared[i].reply = PoolReplies[1]
    /\ history = <<>>
    /\ pc = "Calling"
    /\ prompt = USER_LABEL \o mod_input \o CUE

RECURSIVE C7_Lines(_, _)
\* the lines of turns i.. of transcript h
C7_Lines(h, i) ==
    IF i > Len(h) THEN <<>>
    ELSE TURN_USER \o h[i][1] \o TURN_BOT \o h[i][2]
             \o (IF i < Len(h) THEN NEWLINE ELSE <<>>) \o C7_Lines(h, i + 1)

\* C7: the prompt's context is the final min(n, 6) turns of the transcript
\* in their order, then the message and the cue; the stored transcript
\* keeps its older turns.
C7_LastSixTurns ==
    AfterBuild =>
        LET n == Len(history)
            k == IF n < 6 THEN n ELSE 6
        IN  /\ prompt = C7_Lines(history, n - k + 1)
                            \o USER_LABEL \o mod_input \o CUE
            /\ n = Len(sinceClear)
            /\ \A i \in 1..n :
                   history[i] = <<ReplaceNewline(sinceClear[i].msg),
                                  ReplaceNewline(sinceClear[i].reply)>>

\* C7 witness: a prompt built on a transcript of ten turns
C7_Witness ==
    /\ pc = "Calling"
    /\ Len(history) = 10

C8_Service == Contains(SERVICE, Lower(user_input))
C8_Business == Contains(BUSINESS, Lower(user_input))

\* C8: a message with "service" and not "business" (in any case) enters the
\* prompt behind the service clause, one with "business" and not "service"
\* behind the business clause, one with both or neither as it is; the two
\* clauses are never both applied and the message is always in the prompt.
C8_IntentPrefix ==
    AfterBuild =>
        /\ (C8_Service /\ ~C8_Business) =>
               mod_input = SERVICE_PREFIX \o user_input
        /\ (C8_Business /\ ~C8_Service) =>
               mod_input = BUSINESS_PREFIX \o user_input
        /\ (C8_Service <=> C8_Business) => mod_input = user_input
        /\ user_input \in {M_DOG, M_SERVICE_CAPS} =>
               mod_input = SERVICE_PREFIX \o user_input
        /\ user_input \in {M_BUSINESS, M_BUSINESSES} =>
               mod_input = BUSINESS_PREFIX \o user_input
        /\ user_input \in {M_BOTH, M_HELLO, M_NEAR} =>
               mod_input = user_input
        /\ ~(Contains(SERVICE_PREFIX, mod_input)
                /\ Contains(BUSINESS_PREFIX, mod_input))
        /\ Contains(USER_LABEL \o mod_input \o CUE, prompt)
        /\ Contains(user_input, mod_input)

\* C8 witness: an upper-case SERVICE message behind the service clause
C8_Witness ==
    /\ pc = "Calling"
    /\ user_input = M_SERVICE_CAPS
    /\ mod_input = SERVICE_PREFIX \o M_SERVICE_CAPS

\* a GenerationResult: falsy values are Empty
C9_Result(x) == IF Truthy(x) THEN x ELSE None

\* a non-empty list of candidates exists
C9_HasCandidates(r) ==
    r # None /\ r.candidates.t = "list" /\ r.candidates.v # <<>>

\* the parts of the first candidate, when it has a content with a list
C9_FirstParts(r) ==
    LET c == r.candidates.v[1]
    IN  IF c.content.t = "obj" /\ c.content.parts.t = "list"
        THEN c.content.parts.v
        ELSE <<>>

C9_IsTextPart(p) == p.text.t \in {"str", "int"} /\ Truthy(p.text)

\* the first candidate's parts whose text is not empty
C9_TextParts(r) == SelectSeq(C9_FirstParts(r), C9_IsTextPart)

\* reading the candidates fails: they are no list, the parts are no list,
\* or a text is no string
C9_CandidatesUnreadable(r) ==
    /\ r # None
    /\ \/ r.candidates.t = "int"
       \/ /\ C9_HasCandidates(r)
          /\ \/ LET c == r.candidates.v[1]
                IN  c.content.t = "obj" /\ c.content.parts.t = "int"
             \/ \E i \in DOMAIN C9_TextParts(r) :
                    C9_TextParts(r)[i].text.t = "int"

\* the first candidate's non-empty texts joined with newline, trimmed
C9_FromFirstCandidate(r) ==
    LET parts == C9_TextParts(r)
    IN  C9_Result(PyStr(Strip(Join(<<"\n">>,
                     [i \in DOMAIN parts |-> parts[i].text.v]))))

\* the flat text, trimmed; Empty when absent, empty or unreadable
C9_FromFlatText(r) ==
    IF r.text.t = "str" THEN C9_Result(PyStr(Strip(r.text.v))) ELSE None

\* C9 as amended: (a) when a non-empty candidate list exists and its first
\* candidate has a non-empty text part, the result is those parts joined
\* with newline and trimmed, later candidates ignored; (b) otherwise, also
\* when the first candidate gave no text, a non-empty flat text is used,
\* trimmed; (c) else Empty.  A traversal error gives Empty, never an
\* exception.
C9_ExtractPolicy ==
    extracted # Pending =>
        /\ extracted.t \in {"None", "str"}
        /\ resp = None => extracted = None
        /\ resp # None =>
               C9_Result(extracted) =
                   IF C9_CandidatesUnreadable(resp) THEN None
                   ELSE IF C9_HasCandidates(resp)
                           /\ C9_TextParts(resp) # <<>>
                   THEN C9_FromFirstCandidate(resp)
                   ELSE C9_FromFlatText(resp)

\* C9 witness: candidates exist, the first has no text, the flat text is
\* the result
C9_Witness ==
    /\ extracted # Pending
    /\ C9_HasCandidates(resp)
    /\ ~C9_CandidatesUnreadable(resp)
    /\ C9_TextParts(resp) = <<>>
    /\ Len(resp.candidates.v) = 2
    /\ extracted = PyStr(Strip(T_OK))

\* C9 as stated: whenever a non-empty candidate list exists the result
\* comes from the first candidate only, and the flat text is used only
\* when no such list exists.
C9_Original ==
    (extracted # Pending /\ C9_HasCandidates(resp)) =>
        C9_Result(extracted) =
            IF C9_CandidatesUnreadable(resp) THEN None
            ELSE C9_FromFirstCandidate(resp)

\* a message that is not blank
C10_NonBlank(m) == \E i \in DOMAIN m : m[i] \notin {" ", "\n", "\t", "\r"}

\* C10 as amended: the transcript has one turn per non-blank submission
\* resolved since the last clear, whatever reply resolved it; the turn
\* pairs the un-prefixed message with the reply, each with its newlines
\* replaced by "<br>"; blank submissions leave no turn.
C10_OneTurnPerSubmission ==
    /\ Len(history) = Len(sinceClear)
    /\ \A i \in DOMAIN history :
           /\ C10_NonBlank(sinceClear[i].msg)
           /\ history[i] = <<ReplaceNewline(sinceClear[i].msg),
                             ReplaceNewline(sinceClear[i].reply)>>

\* C10 witness: a quota turn and an apology turn are in the transcript and
\* a blank message was sent as well
C10_Witness ==
    /\ pc = "Idle"
    /\ blankSent
    /\ Len(history) = 2
    /\ history[1][2] = QUOTA_MESSAGE
    /\ history[2][2] = APOLOGY

\* C10 as stated: the turn pairs the original message with its reply
C10_Original ==
    /\ Len(history) = Len(sinceClear)
    /\ \A i \in DOMAIN history :
           /\ C10_NonBlank(sinceClear[i].msg)
           /\ history[i] = <<sinceClear[i].msg, sinceClear[i].reply>>

============================================================================
